---- MODULE Spec2Model ----
(***************************************************************************)
(* The asynchronous task-callback bridge of the video generator backend:   *)
(* the in-memory TaskManager registry (services/task_manager.py), the      *)
(* TaskResult objects it hands out, the flows that wait on them, the       *)
(* Kie.ai callback receiver (api/webhooks.py, services/imagen.py), the     *)
(* background cleanup loop, and the caller that requests an image job and  *)
(* waits for its callback or polls (services/imagen.py).                   *)
(*                                                                         *)
(* TaskResult objects live in a heap (objs); the registry (tasks) maps a   *)
(* task id to a heap index, and a waiter keeps the index of the object it  *)
(* called wait() on, as a Python reference would: removing an entry from   *)
(* the registry does not destroy the object a waiter holds.                *)
(***************************************************************************)
EXTENDS Integers, Sequences, FiniteSets, TLC

\* ---------------------------------------------------------------- bounds
MaxObjs == 2
MaxTimeout == 1
MaxClock == 36
ClockStep == 12
MaxOutage == 11

\* ------------------------------------------------------ program constants
max_age_hours == 24

\* ------------------------------------------------------------ input sets
TaskIds == {"t1", "t2"}
Payloads == {"p1", "p2"}
Errors == {"e1", "e2"}
Waiters == {"w1", "w2"}
None == "None"
NoTimeout == -1
Timeouts == {NoTimeout} \cup (1..MaxTimeout)

VARIABLES tasks, objs, now, waiters, cleanup_task, last, cb, caller, loops, status_api, norm, suno, video_workflows, sweep

vars == <<tasks, objs, now, waiters, cleanup_task, last, cb, caller, loops, status_api, norm, suno, video_workflows, sweep>>

\* ------------------------------------------------------------ TaskResult
\* a heap slot that holds no object
Free == [task_id |-> None, event |-> FALSE, result |-> None, error |-> None,
         created_at |-> 0, completed |-> FALSE]

Unset == [kind |-> "unset", val |-> None]

\* TaskResult.__init__
TaskResult(task_id, created) ==
    [task_id |-> task_id, event |-> FALSE, result |-> None, error |-> None,
     created_at |-> created, completed |-> FALSE]

\* TaskResult.set_result
set_result(o, result) ==
    [o EXCEPT !.result = result, !.completed = TRUE, !.event = TRUE]

\* set_error without the self.event.set() line
set_error_no_signal(o, error) ==
    [o EXCEPT !.error = error, !.completed = TRUE]

\* TaskResult.set_error
set_error(o, error) ==
    [o EXCEPT !.error = error, !.completed = TRUE, !.event = TRUE]

\* a wait that looks at the stored result before the stored error
WaitOutcomeResultFirst(o) ==
    IF o.result # None THEN [kind |-> "returned", val |-> o.result]
    ELSE [kind |-> "raised", val |-> o.error]

\* What TaskResult.wait yields once the event is set: the stored error is
\* raised if there is one, else the stored result is returned.
WaitOutcome(o) ==
    IF o.error # None THEN [kind |-> "raised", val |-> o.error]
    ELSE [kind |-> "returned", val |-> o.result]

\* What TaskResult.wait raises when asyncio.wait_for times out.
TimeoutOutcome == [kind |-> "timeout", val |-> "TimeoutError"]

\* ------------------------------------------------------------ TaskManager
\* TaskManager.get_task: heap index of the entry, 0 when absent
get_task(t) == IF t \in DOMAIN tasks THEN tasks[t] ELSE 0

\* The objects something still refers to: the registry's values and the
\* TaskResult a flow holds; an object nothing refers to is deallocated.
Live(reg, ws) ==
    {reg[t] : t \in DOMAIN reg} \cup {ws[w].obj : w \in Waiters}

Collect(heap, reg, ws) ==
    [i \in DOMAIN heap |-> IF i \in Live(reg, ws) THEN heap[i] ELSE Free]

\* the heap slot a new object is allocated in
NewSlot == CHOOSE i \in 1..MaxObjs : i \notin Live(tasks, waiters)

\* create_task without the duplicate check: the entry is overwritten
create_task_overwrite(t) ==
    /\ \E i \in 1..MaxObjs : i \notin Live(tasks, waiters)
    /\ objs' = [objs EXCEPT ![NewSlot] = TaskResult(t, now)]
    /\ tasks' = [x \in DOMAIN tasks \cup {t} |->
                     IF x = t THEN NewSlot ELSE tasks[x]]
    /\ cleanup_task' = IF cleanup_task \in {"none", "done"}
                       THEN "running" ELSE cleanup_task
    /\ loops' = IF cleanup_task \in {"none", "done"} THEN loops + 1 ELSE loops
    /\ last' = None

\* create_task that starts a cleanup loop without looking at the one it has
create_task_starts_loop(t) ==
    IF t \in DOMAIN tasks
    THEN /\ last' = "ValueError"
         /\ UNCHANGED <<tasks, objs, cleanup_task, loops>>
    ELSE /\ \E i \in 1..MaxObjs : i \notin Live(tasks, waiters)
         /\ objs' = [objs EXCEPT ![NewSlot] = TaskResult(t, now)]
         /\ tasks' = [x \in DOMAIN tasks \cup {t} |->
                          IF x = t THEN NewSlot ELSE tasks[x]]
         /\ cleanup_task' = "running"
         /\ loops' = loops + 1
         /\ last' = None

\* TaskManager.create_task.  `last` is what the most recent registry call
\* or callback raised or warned about (None: neither).
create_task(t) ==
    IF t \in DOMAIN tasks
    THEN /\ last' = "ValueError"
         /\ UNCHANGED <<tasks, objs, cleanup_task, loops>>
    ELSE /\ \E i \in 1..MaxObjs : i \notin Live(tasks, waiters)
         /\ objs' = [objs EXCEPT ![NewSlot] = TaskResult(t, now)]
         /\ tasks' = [x \in DOMAIN tasks \cup {t} |->
                          IF x = t THEN NewSlot ELSE tasks[x]]
         /\ cleanup_task' = IF cleanup_task \in {"none", "done"}
                            THEN "running" ELSE cleanup_task
         /\ loops' = IF cleanup_task \in {"none", "done"}
                     THEN loops + 1 ELSE loops
         /\ last' = None

\* complete_task indexing the registry (self._tasks[task_id]) instead of
\* using .get: an unknown id raises KeyError
complete_task_indexing(t, result) ==
    /\ IF t \in DOMAIN tasks
       THEN /\ objs' = [objs EXCEPT ![tasks[t]] = set_result(@, result)]
            /\ last' = None
       ELSE /\ last' = "KeyError"
            /\ UNCHANGED objs
    /\ UNCHANGED <<tasks, cleanup_task>>

\* TaskManager.complete_task
complete_task(t, result) ==
    /\ IF t \in DOMAIN tasks
       THEN /\ objs' = [objs EXCEPT ![tasks[t]] = set_result(@, result)]
            /\ last' = None
       ELSE /\ last' = "warn_complete_unknown"
            /\ UNCHANGED objs
    /\ UNCHANGED <<tasks, cleanup_task>>

\* TaskManager.fail_task
fail_task(t, error) ==
    /\ IF t \in DOMAIN tasks
       THEN /\ objs' = [objs EXCEPT ![tasks[t]] = set_error(@, error)]
            /\ last' = None
       ELSE /\ last' = "warn_fail_unknown"
            /\ UNCHANGED objs
    /\ UNCHANGED <<tasks, cleanup_task>>

\* remove_task that only drops a completed task
remove_task_completed(reg, t) ==
    IF t \in DOMAIN reg /\ objs[reg[t]].completed
    THEN [x \in DOMAIN reg \ {t} |-> reg[x]]
    ELSE reg

\* TaskManager.remove_task, as a function of the registry
remove_task(reg, t) == [x \in DOMAIN reg \ {t} |-> reg[x]]

\* the sweep selecting by age alone
to_remove_by_age ==
    LET cutoff == now - max_age_hours
    IN {t \in DOMAIN tasks : objs[tasks[t]].created_at < cutoff}

\* the sweep passing over the entries that were resolved by a failure
to_remove_successes ==
    LET cutoff == now - max_age_hours
    IN {t \in DOMAIN tasks :
           /\ objs[tasks[t]].created_at < cutoff
           /\ objs[tasks[t]].completed /\ objs[tasks[t]].error = None}

\* TaskManager._cleanup: the ids the sweep selects
to_remove ==
    LET cutoff == now - max_age_hours
    IN {t \in DOMAIN tasks :
           objs[tasks[t]].created_at < cutoff /\ objs[tasks[t]].completed}

\* TaskManager._cleanup: remove_task for each selected id
RECURSIVE remove_all(_, _)
remove_all(reg, ids) ==
    IF ids = {} THEN reg
    ELSE LET t == CHOOSE x \in ids : TRUE
         IN remove_all(remove_task(reg, t), ids \ {t})

\* ------------------------------------------------------ callback receiver
\* no callback request in flight and none answered yet
NoCallback == [pc |-> "idle", task_id |-> None, http |-> 0, status |-> None]

\* kie_callback returns its acknowledgement: a dict, so HTTP 200
Ack(t, status) == [pc |-> "idle", task_id |-> t, http |-> 200, status |-> status]

\* f"Image generation failed ({error_code}): {error_msg}" with the defaults
\* `fail_code or "Unknown"` and `fail_msg or "Task failed"`
GenerationFailed(fail_code, fail_msg) ==
    LET error_code == IF fail_code = None THEN "Unknown" ELSE fail_code
        error_msg == IF fail_msg = None THEN "Task failed" ELSE fail_msg
    IN CASE error_code = "501" /\ error_msg = "m1" ->
                "Image generation failed (501): m1"
         [] error_code = "501" /\ error_msg = "Task failed" ->
                "Image generation failed (501): Task failed"
         [] error_code = "Unknown" /\ error_msg = "m1" ->
                "Image generation failed (Unknown): m1"
         [] OTHER -> "Image generation failed (Unknown): Task failed"

\* handle_kie_callback up to its first suspension (the image download)
handle_kie_callback(t, state, rj, fail_msg, fail_code) ==
    IF get_task(t) = 0
    THEN /\ last' = "warn_callback_unknown"
         /\ cb' = Ack(t, "success")
         /\ UNCHANGED <<tasks, objs, cleanup_task>>
    ELSE IF state = "success"
    THEN IF rj = "missing"
         THEN fail_task(t, "NoResultJson") /\ cb' = Ack(t, "success")
         ELSE IF rj = "invalid"
         THEN fail_task(t, "ParseError") /\ cb' = Ack(t, "success")
         ELSE IF rj = "nourls"
         THEN fail_task(t, "NoUrls") /\ cb' = Ack(t, "success")
         ELSE /\ cb' = [pc |-> "download", task_id |-> t, http |-> 0,
                        status |-> None]
              /\ UNCHANGED <<tasks, objs, cleanup_task, last>>
    ELSE IF state = "fail"
    THEN fail_task(t, GenerationFailed(fail_code, fail_msg)) /\ cb' = Ack(t, "success")
    ELSE /\ cb' = Ack(t, "success")
         /\ last' = None
         /\ UNCHANGED <<tasks, objs, cleanup_task>>

\* -------------------------------------------------- the dual-path caller
\* _generate_with_nano_banana_pro: one image job of the provider
max_polls == 60
give_up_after == 10
\* poll_interval as the caller passes it
poll_interval == 5

\* the task id the provider assigns to the job
JobId == "t1"

\* backend URLs, as the pieces the substring tests look at
BackendUrls ==
    {<<"http://", "localhost", ":8000">>,
     <<"http://", "127.0.0.1", ":8000">>,
     <<"http://", "0.0.0.0", ":8000">>,
     <<"https://", "LOCALHOST">>,
     <<"https://", "my", "localhost", ".example.com">>,
     <<"https://", "app.up.railway.app">>}

\* str.lower on one piece
lower(piece) == IF piece = "LOCALHOST" THEN "localhost" ELSE piece

\* use_callback = not any(host in backend_url.lower() for host in [...])
use_callback_always(backend_url) == TRUE

use_callback(backend_url) ==
    ~ \E host \in {"localhost", "127.0.0.1", "0.0.0.0"} :
          \E i \in DOMAIN backend_url : lower(backend_url[i]) = host

\* no job requested yet
NoCaller == [pc |-> "idle", backend_url |-> <<>>, use_callback |-> FALSE,
             callBackUrl |-> FALSE, poll_count |-> 0, elapsed_seconds |-> 0,
             current_interval |-> 0, out |-> Unset]

Raised(c, error) ==
    [c EXCEPT !.pc = "raised", !.out = [kind |-> "raised", val |-> error]]

Returned(c, image) ==
    [c EXCEPT !.pc = "returned", !.out = [kind |-> "returned", val |-> image]]

\* one iteration of a polling loop that starts over when its max_polls
\* attempts are used up
poll_step_restarts(c, r, image, fail_msg, fail_code) ==
    LET next == [c EXCEPT !.poll_count = @ + 1]
    IN IF r = "success" THEN Returned(next, image)
       ELSE IF r = "success_bad" THEN Raised(next, "PollBadResult")
       ELSE IF r = "fail"
       THEN Raised(next, GenerationFailed(fail_code, fail_msg))
       ELSE IF r = "error" /\ c.poll_count >= give_up_after
       THEN Raised(next, "PollGaveUp")
       ELSE IF next.poll_count = max_polls THEN [c EXCEPT !.poll_count = 0]
       ELSE next

\* one iteration that looks the task up in the registry before it asks
\* the provider
poll_step_registry(c, r, image, fail_msg, fail_code) ==
    LET next == [c EXCEPT !.poll_count = @ + 1]
        o == objs[get_task(JobId)]
    IN IF get_task(JobId) # 0 /\ o.completed
       THEN IF o.error # None THEN Raised(next, o.error)
            ELSE Returned(next, o.result)
       ELSE IF r = "success" THEN Returned(next, image)
       ELSE IF r = "success_bad" THEN Raised(next, "PollBadResult")
       ELSE IF r = "fail"
       THEN Raised(next, GenerationFailed(fail_code, fail_msg))
       ELSE IF r = "error" /\ c.poll_count >= give_up_after
       THEN Raised(next, "PollGaveUp")
       ELSE IF next.poll_count = max_polls THEN Raised(next, "PollTimeout")
       ELSE next

\* the interval the loop slept at, whatever time has gone by
current_interval_fixed(elapsed_seconds) == poll_interval

\* current_interval, from the time slept so far
current_interval(elapsed_seconds) ==
    IF elapsed_seconds < 30 THEN 3
    ELSE IF elapsed_seconds < 120 THEN 8
    ELSE 20

\* the head of one iteration: the interval is computed, and slept and
\* added to elapsed_seconds unless this is the first iteration
sleep_step(c) ==
    [c EXCEPT !.poll_count = @ + 1,
              !.current_interval = current_interval(c.elapsed_seconds),
              !.elapsed_seconds =
                  IF c.poll_count > 0
                  THEN @ + current_interval(c.elapsed_seconds) ELSE @]

\* one iteration of the loop of _poll_for_task_completion: the sleep, the
\* status request and what its response r leads to.  c.poll_count is the
\* loop index, which is the number of status requests issued so far.
poll_step(c, r, image, fail_msg, fail_code) ==
    LET next == sleep_step(c)
    IN IF r = "success" THEN Returned(next, image)
       ELSE IF r = "success_bad" THEN Raised(next, "PollBadResult")
       ELSE IF r = "fail"
       THEN Raised(next, GenerationFailed(fail_code, fail_msg))
       ELSE IF r = "error" /\ c.poll_count >= give_up_after
       THEN Raised(next, "PollGaveUp")
       ELSE IF next.poll_count = max_polls THEN Raised(next, "PollTimeout")
       ELSE next

\* the provider's status endpoint: it fails the requests numbered
\* from .. from + for - 1 of the job
NoOutage == [from |-> 0, for |-> 0]

InOutage(n) == status_api.from <= n /\ n < status_api.from + status_api.for

\* a KieCallbackPayload with no field set
EmptyPayload ==
    [taskId |-> None, task_id |-> None, d_taskId |-> None, d_task_id |-> None,
     resultJson |-> None, result_json |-> None,
     d_resultJson |-> None, d_result_json |-> None,
     failMsg |-> None, fail_msg |-> None,
     d_failMsg |-> None, d_fail_msg |-> None,
     failCode |-> None, fail_code |-> None,
     d_failCode |-> None, d_fail_code |-> None,
     state |-> None, d_state |-> None, data |-> FALSE]

\* kie_callback before a payload is normalized
NoNorm == [pc |-> "idle", payload |-> EmptyPayload, task_id |-> None,
           state |-> None, result_json_str |-> None, fail_msg |-> None,
           fail_code |-> None]

\* rows of the video_workflows table; the state kept of a row is its
\* audio_asset.file_url
Workflows == {"wf1", "wf2"}

\* f"task://{task_id}"
task_url(t) ==
    CASE t = "t1" -> "task://t1"
      [] t = "t2" -> "task://t2"
      [] OTHER -> "task://None"

\* suno_callback has answered nothing yet
NoSuno == [http |-> 0, status |-> None, message |-> None,
           callbackType |-> None, task_id |-> None]

\* suno_callback returns a dict, so HTTP 200
SunoAck(status, message, callback_type, t) ==
    [http |-> 200, status |-> status, message |-> message,
     callbackType |-> callback_type, task_id |-> t]

\* the flow of _cleanup_loop between two sweeps: suspended in its sleep
NoSweep == [pc |-> "sleep", awaiting |-> TRUE, to_remove |-> {}, left |-> {}]

\* ---------------------------------------------------------------- actions
Idle == [pc |-> "idle", obj |-> 0, left |-> NoTimeout, late |-> FALSE, out |-> Unset]

Init ==
    /\ tasks = <<>>
    /\ objs = [i \in 1..MaxObjs |-> Free]
    /\ now = 0
    /\ waiters = [w \in Waiters |-> Idle]
    /\ cleanup_task = "none"
    /\ last = None
    /\ cb = NoCallback
    /\ caller = NoCaller
    /\ loops = 0
    /\ status_api = NoOutage
    /\ norm = NoNorm
    /\ suno = NoSuno
    /\ sweep = NoSweep
    /\ video_workflows = [wf \in Workflows |-> None]

CreateTask(t) ==
    /\ create_task(t)
    /\ UNCHANGED <<now, waiters, cb, caller, status_api, norm, suno, video_workflows, sweep>>

CompleteTask(t, p) ==
    /\ complete_task(t, p)
    /\ UNCHANGED <<now, waiters, cb, caller, loops, status_api, norm, suno, video_workflows, sweep>>

FailTask(t, e) ==
    /\ fail_task(t, e)
    /\ UNCHANGED <<now, waiters, cb, caller, loops, status_api, norm, suno, video_workflows, sweep>>

RemoveTask(t) ==
    /\ tasks' = remove_task(tasks, t)
    /\ objs' = Collect(objs, tasks', waiters)
    /\ last' = None
    /\ UNCHANGED <<now, waiters, cleanup_task, cb, caller, loops, status_api, norm, suno, video_workflows, sweep>>

\* one pass of _cleanup_loop: the sleep has elapsed and _cleanup runs
Cleanup ==
    /\ cleanup_task = "running"
    /\ tasks' = remove_all(tasks, to_remove)
    /\ objs' = Collect(objs, tasks', waiters)
    /\ last' = IF to_remove # {} THEN "cleaned_up" ELSE last
    /\ UNCHANGED <<now, waiters, cleanup_task, cb, caller, loops, status_api, norm, suno, video_workflows, sweep>>

\* datetime.now() advances
ClockTick ==
    /\ now + ClockStep <= MaxClock
    /\ now' = now + ClockStep
    /\ UNCHANGED <<tasks, objs, waiters, cleanup_task, last, cb, caller, loops, status_api, norm, suno, video_workflows, sweep>>

\* a scan after which the sweep is suspended before it removes
SweepScanYields ==
    /\ cleanup_task = "running"
    /\ sweep.pc = "sleep"
    /\ sweep' = [pc |-> "remove", awaiting |-> TRUE,
                 to_remove |-> to_remove, left |-> to_remove]
    /\ UNCHANGED <<tasks, objs, now, waiters, cleanup_task, last, cb, caller,
                   loops, status_api, norm, suno, video_workflows>>

\* _cleanup step by step.  The scan: the sleep of _cleanup_loop is over,
\* _cleanup computes the cutoff and builds the list to_remove.  There is
\* no await between here and the end of _cleanup.
SweepScan ==
    /\ cleanup_task = "running"
    /\ sweep.pc = "sleep"
    /\ sweep' = [pc |-> "remove", awaiting |-> FALSE,
                 to_remove |-> to_remove, left |-> to_remove]
    /\ UNCHANGED <<tasks, objs, now, waiters, cleanup_task, last, cb, caller,
                   loops, status_api, norm, suno, video_workflows>>

\* one iteration of `for task_id in to_remove: self.remove_task(task_id)`
SweepRemove ==
    /\ sweep.pc = "remove"
    /\ \E t \in sweep.left :
          /\ tasks' = remove_task(tasks, t)
          /\ objs' = Collect(objs, tasks', waiters)
          /\ sweep' = [sweep EXCEPT !.left = @ \ {t}]
    /\ UNCHANGED <<now, waiters, cleanup_task, last, cb, caller, loops,
                   status_api, norm, suno, video_workflows>>

\* the list is done: _cleanup logs the count and returns, and
\* _cleanup_loop is suspended in its next sleep
SweepSleep ==
    /\ sweep.pc = "remove"
    /\ sweep.left = {}
    /\ sweep' = NoSweep
    /\ last' = IF sweep.to_remove # {} THEN "cleaned_up" ELSE last
    /\ UNCHANGED <<tasks, objs, now, waiters, cleanup_task, cb, caller, loops,
                   status_api, norm, suno, video_workflows>>

\* the cleanup task is cancelled (task.cancel(), as the event loop does
\* on shutdown); the loop is suspended in an await and is not done yet
CancelCleanup ==
    /\ cleanup_task = "running"
    /\ cleanup_task' = "cancelling"
    /\ UNCHANGED <<tasks, objs, now, waiters, last, cb, caller, loops, status_api, norm, suno, video_workflows, sweep>>

\* _cleanup_loop gets CancelledError at its await and breaks
CleanupLoopEnds ==
    /\ cleanup_task = "cancelling"
    /\ cleanup_task' = "done"
    /\ loops' = loops - 1
    /\ UNCHANGED <<tasks, objs, now, waiters, last, cb, caller, status_api, norm, suno, video_workflows, sweep>>

\* a pass of _cleanup_loop in which _cleanup raises: the exception is
\* logged and the loop goes on
CleanupRaises ==
    /\ cleanup_task = "running"
    /\ last' = "cleanup_error"
    /\ UNCHANGED <<tasks, objs, now, waiters, cleanup_task, cb, caller, loops, status_api, norm, suno, video_workflows, sweep>>

\* a wait() call that has ended with the given outcome
Done(wr, outcome) ==
    [pc |-> "done", obj |-> wr.obj, left |-> NoTimeout, late |-> wr.late,
     out |-> outcome]

\* a flow calls wait(timeout) on the TaskResult it got from get_task.
\* Whether asyncio.wait_for yields to the event loop when the event is
\* already set depends on the Python version, so the call and its return
\* are two steps that other flows may or may not run between.
WaitStart(w, t, timeout) ==
    /\ waiters[w].pc # "waiting"
    /\ get_task(t) # 0
    /\ waiters' = [waiters EXCEPT ![w] =
                      [pc |-> "waiting", obj |-> get_task(t), left |-> timeout,
                       late |-> objs[get_task(t)].event, out |-> Unset]]
    /\ objs' = Collect(objs, tasks, waiters')
    /\ UNCHANGED <<tasks, now, cleanup_task, last, cb, caller, loops, status_api, norm, suno, video_workflows, sweep>>

\* the event is set: wait_for returns and wait() reads error / result
WaitReturn(w) ==
    /\ waiters[w].pc = "waiting"
    /\ objs[waiters[w].obj].event
    /\ waiters' = [waiters EXCEPT ![w] =
                      Done(@, WaitOutcome(objs[waiters[w].obj]))]
    /\ UNCHANGED <<tasks, objs, now, cleanup_task, last, cb, caller, loops, status_api, norm, suno, video_workflows, sweep>>

\* a timeout that fires although the event is set
WaitTimeoutUnchecked(w) ==
    /\ waiters[w].pc = "waiting"
    /\ waiters[w].left = 0
    /\ waiters' = [waiters EXCEPT ![w] = Done(@, TimeoutOutcome)]
    /\ UNCHANGED <<tasks, objs, now, cleanup_task, last, cb, caller, loops, status_api, norm, suno, video_workflows, sweep>>

\* a timeout that never fires (wait_for called without the timeout)
WaitTimeoutNever(w) ==
    /\ FALSE
    /\ UNCHANGED vars

\* a timeout that also drops the task's entry from the registry
WaitTimeoutRemoves(w) ==
    /\ waiters[w].pc = "waiting"
    /\ waiters[w].left = 0
    /\ ~objs[waiters[w].obj].event
    /\ waiters' = [waiters EXCEPT ![w] = Done(@, TimeoutOutcome)]
    /\ tasks' = remove_task(tasks, objs[waiters[w].obj].task_id)
    /\ UNCHANGED <<objs, now, cleanup_task, last, cb, caller, loops, status_api, norm, suno, video_workflows, sweep>>

\* the timeout of wait_for elapses with the event still unset
WaitTimeout(w) ==
    /\ waiters[w].pc = "waiting"
    /\ waiters[w].left = 0
    /\ ~objs[waiters[w].obj].event
    /\ waiters' = [waiters EXCEPT ![w] = Done(@, TimeoutOutcome)]
    /\ UNCHANGED <<tasks, objs, now, cleanup_task, last, cb, caller, loops, status_api, norm, suno, video_workflows, sweep>>

\* event-loop time passes for every suspended wait_for with a timeout
LoopTick ==
    /\ \E w \in Waiters : waiters[w].pc = "waiting" /\ waiters[w].left > 0
    /\ waiters' = [w \in Waiters |->
                      IF waiters[w].pc = "waiting" /\ waiters[w].left > 0
                      THEN [waiters[w] EXCEPT !.left = @ - 1]
                      ELSE waiters[w]]
    /\ UNCHANGED <<tasks, objs, now, cleanup_task, last, cb, caller, loops, status_api, norm, suno, video_workflows, sweep>>

\* ------------------------------------------------ the callback endpoint
\* the request bodies of POST /api/webhooks/kie-callback: one that
\* validates as KieCallbackPayload, none at all, and one that is not JSON
\* or has a wrongly typed field
Bodies == {"valid", "absent", "malformed"}

\* the values of an Optional[str] field: absent, empty, or a task id
IdFields == {None, "", "t1"}

\* the task id and state fields of a KieCallbackPayload; data says whether
\* payload.data is a non-empty dict, the d_ fields are its keys
KiePayloads ==
    {pl \in [taskId : IdFields, task_id : IdFields, data : BOOLEAN,
             d_taskId : IdFields, d_task_id : IdFields,
             state : {"success"}, d_state : {None}] :
        ~pl.data => (pl.d_taskId = None /\ pl.d_task_id = None
                        /\ pl.d_state = None)}

\* a payload that carries nothing but the state
NoPayload == [taskId |-> None, task_id |-> None, data |-> FALSE,
              d_taskId |-> None, d_task_id |-> None,
              state |-> "success", d_state |-> None]

\* an `or` that prefers its second operand
or_second(a, b) == IF b \in {None, ""} THEN a ELSE b

\* Python's `a or b`
or_(a, b) == IF a \in {None, ""} THEN b ELSE a

\* task_id = payload.taskId or payload.task_id, then the nested fallbacks;
\* None stands for every falsy outcome (`if not task_id`)
payload_task_id(pl) ==
    LET top == or_(pl.taskId, pl.task_id)
        tid == IF pl.data THEN or_(or_(top, pl.d_taskId), pl.d_task_id)
               ELSE top
    IN IF tid \in {None, ""} THEN None ELSE tid

\* state = payload.state, then the nested fallback
payload_state(pl) == IF pl.data THEN or_(pl.state, pl.d_state) ELSE pl.state

\* result_json_str, fail_msg and fail_code: the same chain on their fields
payload_result_json(pl) ==
    LET top == or_(pl.resultJson, pl.result_json)
    IN IF pl.data THEN or_(or_(top, pl.d_resultJson), pl.d_result_json)
       ELSE top

payload_fail_msg(pl) ==
    LET top == or_(pl.failMsg, pl.fail_msg)
    IN IF pl.data THEN or_(or_(top, pl.d_failMsg), pl.d_fail_msg) ELSE top

payload_fail_code(pl) ==
    LET top == or_(pl.failCode, pl.fail_code)
    IN IF pl.data THEN or_(or_(top, pl.d_failCode), pl.d_fail_code) ELSE top

\* values of a payload field: missing, empty, or one of two strings
FieldValues == {None, "", "v1", "v2"}

\* the four places of each logical field: camelCase, snake_case, and the
\* same two keys of payload.data
TaskIdNames == <<"taskId", "task_id", "d_taskId", "d_task_id">>
ResultJsonNames == <<"resultJson", "result_json", "d_resultJson", "d_result_json">>
FailMsgNames == <<"failMsg", "fail_msg", "d_failMsg", "d_fail_msg">>
FailCodeNames == <<"failCode", "fail_code", "d_failCode", "d_fail_code">>
FieldNames == {TaskIdNames, ResultJsonNames, FailMsgNames, FailCodeNames}

\* values for the four places; without a data wrapper the nested two are
\* missing
PlaceValues ==
    {x \in [1..4 -> FieldValues] \X BOOLEAN :
        ~x[2] => (x[1][3] = None /\ x[1][4] = None)}

\* payloads in which one logical field takes every combination of values
OneFieldPayloads ==
    {[EmptyPayload EXCEPT ![f[1]] = x[1][1], ![f[2]] = x[1][2],
                          ![f[3]] = x[1][3], ![f[4]] = x[1][4],
                          !.data = x[2], !.state = "success"] :
        f \in FieldNames, x \in PlaceValues}

\* payloads in which the state takes every combination of values
StatePayloads ==
    {[EmptyPayload EXCEPT !.taskId = "v1", !.state = x[1], !.d_state = x[2],
                          !.data = x[3]] :
        x \in {y \in {None, "", "success", "fail"}
                       \X {None, "", "success", "fail"} \X BOOLEAN :
                  ~y[3] => y[2] = None}}

\* payloads that carry every field in the same place k
SamePlacePayloads ==
    {[EmptyPayload EXCEPT ![TaskIdNames[k]] = v[1],
                          ![ResultJsonNames[k]] = v[2],
                          ![FailMsgNames[k]] = v[3],
                          ![FailCodeNames[k]] = v[4],
                          !.state = IF k <= 2 THEN "fail" ELSE None,
                          !.d_state = IF k <= 2 THEN None ELSE "fail",
                          !.data = (k > 2)] :
        k \in 1..4, v \in [1..4 -> {"v1", "v2"}]}

NormInputs == OneFieldPayloads \cup StatePayloads \cup SamePlacePayloads

\* the normalization of kie_callback on a parsed payload
Normalize(pl) ==
    /\ norm.pc = "idle"
    /\ norm' = [pc |-> "normalized", payload |-> pl,
                task_id |-> payload_task_id(pl),
                state |-> payload_state(pl),
                result_json_str |-> payload_result_json(pl),
                fail_msg |-> payload_fail_msg(pl),
                fail_code |-> payload_fail_code(pl)]
    /\ UNCHANGED <<tasks, objs, now, waiters, cleanup_task, last, cb, caller,
                   loops, status_api, suno, video_workflows, sweep>>

\* the handler is done with the payload
NormalizeReturn ==
    /\ norm.pc = "normalized"
    /\ norm' = NoNorm
    /\ UNCHANGED <<tasks, objs, now, waiters, cleanup_task, last, cb, caller,
                   loops, status_api, suno, video_workflows, sweep>>

\* generate_music returned an AudioAsset with file_url task://{task_id},
\* and the workflow was saved with it
WorkflowSaved(wf, t) ==
    /\ video_workflows[wf] = None
    /\ video_workflows' = [video_workflows EXCEPT ![wf] = task_url(t)]
    /\ UNCHANGED <<tasks, objs, now, waiters, cleanup_task, last, cb, caller,
                   loops, status_api, norm, suno, sweep>>

SunoBodies == {"valid", "absent", "malformed"}
SunoCodes == {200, 500}
\* data.callbackType: the key is absent, or one of the provider's types
SunoCallbackTypes == {"absent", "text", "first", "complete"}
\* data.data: the key is absent, null, an empty list, a list of tracks
SunoTracks == {"absent", "null", "empty", "tracks"}
\* the workflow store: not configured, fails, or answers
Supabase == {"unset", "exception", "ok"}

\* POST /suno-callback.  The log line that formats len(tracks_data) comes
\* before the callbackType test, and len(None) raises TypeError, which the
\* outer handler turns into an error acknowledgement.
SunoCallback(body, code, has_data, callback_type_in, t, tracks_data, supabase) ==
    LET callback_type ==
            IF callback_type_in = "absent" THEN "complete"
            ELSE callback_type_in
        matching == {wf \in Workflows : video_workflows[wf] = task_url(t)}
    IN /\ IF body # "valid"
          THEN /\ suno' = [NoSuno EXCEPT !.http = 400]
               /\ UNCHANGED video_workflows
          ELSE IF code # 200
          THEN /\ suno' = SunoAck("error", "Generation failed", None, None)
               /\ UNCHANGED video_workflows
          ELSE IF ~has_data
          THEN /\ suno' = SunoAck("error", "Missing data in callback",
                                  None, None)
               /\ UNCHANGED video_workflows
          ELSE IF tracks_data = "null"
          THEN /\ suno' = SunoAck("error", "Error processing callback",
                                  None, None)
               /\ UNCHANGED video_workflows
          ELSE IF callback_type # "complete"
          THEN /\ suno' = SunoAck("success", "Intermediate callback received",
                                  callback_type, t)
               /\ UNCHANGED video_workflows
          ELSE IF tracks_data # "tracks"
          THEN /\ suno' = SunoAck("error", "No tracks in callback data",
                                  None, None)
               /\ UNCHANGED video_workflows
          ELSE IF supabase = "unset"
          THEN /\ suno' = SunoAck("error", "Supabase not configured",
                                  None, None)
               /\ UNCHANGED video_workflows
          ELSE IF supabase = "exception"
          THEN /\ suno' = SunoAck("error",
                                  "Callback received but workflow update failed",
                                  None, t)
               /\ UNCHANGED video_workflows
          ELSE IF matching = {}
          THEN /\ suno' = SunoAck("success",
                             "Callback processed but no matching workflow found",
                             None, t)
               /\ UNCHANGED video_workflows
          ELSE /\ suno' = SunoAck("success",
                                  "Callback processed and workflow updated",
                                  callback_type, t)
               /\ video_workflows' =
                      [wf \in Workflows |->
                          IF wf \in matching THEN "audio_url"
                          ELSE video_workflows[wf]]
       /\ UNCHANGED <<tasks, objs, now, waiters, cleanup_task, last, cb,
                      caller, loops, status_api, norm, sweep>>

\* the body does not reach kie_callback's normalization: FastAPI raises
\* RequestValidationError for a malformed body, kie_callback raises
\* HTTPException(400) for an absent one; both handlers answer HTTP 400
CallbackRejected(body) ==
    /\ cb.pc = "idle"
    /\ body \in {"absent", "malformed"}
    /\ cb' = [pc |-> "idle", task_id |-> None, http |-> 400, status |-> None]
    /\ last' = IF body = "absent" THEN "HTTPException"
               ELSE "RequestValidationError"
    /\ UNCHANGED <<tasks, objs, now, waiters, cleanup_task, caller, loops, status_api, norm, suno, video_workflows, sweep>>

\* kie_callback that hands every callback to handle_kie_callback
CallbackReceiveUnguarded(t, state, rj, fail_msg, fail_code) ==
    /\ cb.pc = "idle"
    /\ handle_kie_callback(t, state, rj, fail_msg, fail_code)
    /\ UNCHANGED <<now, waiters, caller, loops, status_api, norm, suno, video_workflows, sweep>>

\* POST /api/webhooks/kie-callback with the normalized fields (t is None
\* when no task id is found): kie_callback up to the image download
CallbackReceive(t, state, rj, fail_msg, fail_code) ==
    /\ cb.pc = "idle"
    /\ IF t = None
       THEN /\ cb' = Ack(None, "error")
            /\ last' = "warn_missing_task_id"
            /\ UNCHANGED <<tasks, objs, cleanup_task>>
       ELSE handle_kie_callback(t, state, rj, fail_msg, fail_code)
    /\ UNCHANGED <<now, waiters, caller, loops, status_api, norm, suno, video_workflows, sweep>>

\* the download of handle_kie_callback ends: HTTP 200 with the image,
\* another status, or an exception of the HTTP client
CallbackDownloaded(dl, image) ==
    /\ cb.pc = "download"
    /\ IF dl = "200" THEN complete_task(cb.task_id, image)
       ELSE IF dl = "non200" THEN fail_task(cb.task_id, "DownloadFailed")
       ELSE fail_task(cb.task_id, "ProcessingError")
    /\ cb' = Ack(cb.task_id, "success")
    /\ UNCHANGED <<now, waiters, caller, loops, status_api, norm, suno, video_workflows, sweep>>

\* POST /api/webhooks/kie-callback with the given body
CallbackPost(body, pl, rj, fail_msg, fail_code) ==
    IF body = "valid"
    THEN CallbackReceive(payload_task_id(pl), payload_state(pl), rj,
                         fail_msg, fail_code)
    ELSE CallbackRejected(body)

CallbackStates == {"success", "fail", "waiting", None}
ResultJsons == {"missing", "invalid", "nourls", "urls"}
Downloads == {"200", "non200", "exception"}
FailMsgs == {None, "m1"}
FailCodes == {None, "501"}


\* callback_timeout = 180 seconds, counted in ticks of the loop clock
callback_timeout == MaxTimeout

\* the caller judges the backend URL, builds the createTask payload (with
\* callBackUrl only if use_callback) and sends it
CallerStart(backend_url) ==
    /\ caller.pc = "idle"
    /\ caller' = [NoCaller EXCEPT !.pc = "posted",
                                  !.backend_url = backend_url,
                                  !.use_callback = use_callback(backend_url),
                                  !.callBackUrl = use_callback(backend_url)]
    /\ UNCHANGED <<tasks, objs, now, waiters, cleanup_task, last, cb, loops, status_api, norm, suno, video_workflows, sweep>>

Responses == {"rejected", "timeout", "sync_success", "sync_fail", "async"}

\* the createTask request ends.  rejected: a status or code other than
\* 200, or no task id in the response; timeout: httpx.TimeoutException;
\* sync_success / sync_fail: the response already carries the final state;
\* async: the response carries the task id of a job in progress, and the
\* caller registers the task and waits for the callback, or polls.
CallerResponse(resp, image, fail_msg, fail_code) ==
    /\ caller.pc = "posted"
    /\ IF resp = "async" /\ caller.use_callback
       THEN /\ create_task(JobId)
            /\ IF JobId \in DOMAIN tasks
               THEN /\ caller' = Raised(caller, "TaskExists")
                    /\ UNCHANGED waiters
               ELSE /\ caller' = [caller EXCEPT !.pc = "waiting"]
                    /\ waiters' = [waiters EXCEPT !["w1"] =
                                      [pc |-> "waiting", obj |-> NewSlot,
                                       left |-> callback_timeout,
                                       late |-> FALSE, out |-> Unset]]
       ELSE /\ caller' =
                  IF resp = "async" THEN [caller EXCEPT !.pc = "polling"]
                  ELSE IF resp = "sync_success" THEN Returned(caller, image)
                  ELSE IF resp = "sync_fail"
                  THEN Raised(caller, GenerationFailed(fail_code, fail_msg))
                  ELSE IF resp = "timeout"
                  THEN Raised(caller, "RequestTimedOut")
                  ELSE Raised(caller, "KieApiError")
            /\ UNCHANGED <<tasks, objs, waiters, cleanup_task, last, loops>>
    /\ UNCHANGED <<now, cb, status_api, norm, suno, video_workflows, sweep>>

\* a caller that polls whenever its wait raised, whatever was raised
CallerWaitReturnOrPoll ==
    /\ caller.pc = "waiting"
    /\ waiters["w1"].pc = "waiting"
    /\ objs[waiters["w1"].obj].event
    /\ LET out == WaitOutcome(objs[waiters["w1"].obj])
       IN /\ waiters' = [waiters EXCEPT !["w1"] = Done(@, out)]
          /\ caller' = IF out.kind = "raised"
                        THEN [caller EXCEPT !.pc = "polling",
                                            !.use_callback = FALSE]
                        ELSE Returned(caller, out.val)
    /\ UNCHANGED <<tasks, objs, now, cleanup_task, last, cb, loops, status_api, norm, suno, video_workflows, sweep>>

\* the caller's wait ends because the event is set: the stored result is
\* the image the caller returns, the stored error propagates
CallerWaitReturn ==
    /\ caller.pc = "waiting"
    /\ waiters["w1"].pc = "waiting"
    /\ objs[waiters["w1"].obj].event
    /\ LET out == WaitOutcome(objs[waiters["w1"].obj])
       IN /\ waiters' = [waiters EXCEPT !["w1"] = Done(@, out)]
          /\ caller' = IF out.kind = "raised" THEN Raised(caller, out.val)
                        ELSE Returned(caller, out.val)
    /\ UNCHANGED <<tasks, objs, now, cleanup_task, last, cb, loops, status_api, norm, suno, video_workflows, sweep>>

\* the caller's wait times out: except TimeoutError switches to polling
CallerWaitTimeout ==
    /\ caller.pc = "waiting"
    /\ waiters["w1"].pc = "waiting"
    /\ waiters["w1"].left = 0
    /\ ~objs[waiters["w1"].obj].event
    /\ waiters' = [waiters EXCEPT !["w1"] = Done(@, TimeoutOutcome)]
    /\ caller' = [caller EXCEPT !.pc = "polling", !.use_callback = FALSE]
    /\ UNCHANGED <<tasks, objs, now, cleanup_task, last, cb, loops, status_api, norm, suno, video_workflows, sweep>>

PollResponses == {"success", "success_bad", "fail", "error", "pending"}

\* one iteration of the polling loop
CallerPoll(r, image, fail_msg, fail_code) ==
    /\ caller.pc = "polling"
    /\ caller' = poll_step(caller, r, image, fail_msg, fail_code)
    /\ UNCHANGED <<tasks, objs, now, waiters, cleanup_task, last, cb, loops, status_api, norm, suno, video_workflows, sweep>>

\* the status endpoint goes down for the next n status requests
OutageBegins(n) ==
    /\ status_api = NoOutage
    /\ caller.pc \in {"idle", "posted", "polling"}
    /\ status_api' = [from |-> caller.poll_count, for |-> n]
    /\ UNCHANGED <<tasks, objs, now, waiters, cleanup_task, last, cb, caller,
                   loops, norm, suno, video_workflows, sweep>>

\* the provider, which was given the callback URL, posts a callback for
\* the job
ProviderCallback(state, rj, fail_msg, fail_code) ==
    /\ caller.callBackUrl
    /\ caller.pc # "idle"
    /\ CallbackReceive(JobId, state, rj, fail_msg, fail_code)

\* the registry with both task ids and one waiting flow
Next ==
    \/ \E t \in TaskIds : CreateTask(t)
    \/ \E t \in TaskIds, p \in Payloads : CompleteTask(t, p)
    \/ \E t \in TaskIds, e \in Errors : FailTask(t, e)
    \/ \E t \in TaskIds : RemoveTask(t)
    \/ \E t \in TaskIds, x \in Timeouts : WaitStart("w1", t, x)
    \/ WaitReturn("w1")
    \/ WaitTimeout("w1")
    \/ LoopTick

Spec == Init /\ [][Next]_vars

\* one task id and every waiting flow
NextWaiters ==
    \/ CreateTask("t1")
    \/ CompleteTask("t1", "p1")
    \/ \E e \in Errors : FailTask("t1", e)
    \/ RemoveTask("t1")
    \/ \E w \in Waiters, x \in Timeouts : WaitStart(w, "t1", x)
    \/ \E w \in Waiters : WaitReturn(w)
    \/ \E w \in Waiters : WaitTimeout(w)
    \/ LoopTick

SpecWaiters == Init /\ [][NextWaiters]_vars

\* the same flows under the scheduling of the event loop: a timer that is
\* due fires, and a flow whose event is set or whose timeout has elapsed
\* is resumed
FairWaiters ==
    /\ WF_vars(LoopTick)
    /\ \A w \in Waiters : WF_vars(WaitReturn(w)) /\ WF_vars(WaitTimeout(w))

\* finite-timeout waits on one task under that scheduling
NextFair ==
    \/ CreateTask("t1")
    \/ CompleteTask("t1", "p1")
    \/ FailTask("t1", "e1")
    \/ RemoveTask("t1")
    \/ \E w \in Waiters, x \in 1..MaxTimeout : WaitStart(w, "t1", x)
    \/ \E w \in Waiters : WaitReturn(w)
    \/ \E w \in Waiters : WaitTimeout(w)
    \/ LoopTick

SpecWaitersFair == Init /\ [][NextFair]_vars /\ FairWaiters

\* the registry under the wall clock and the cleanup loop, no flow waiting
NextReaper ==
    \/ \E t \in TaskIds : CreateTask(t)
    \/ \E t \in TaskIds, p \in Payloads : CompleteTask(t, p)
    \/ \E t \in TaskIds, e \in Errors : FailTask(t, e)
    \/ \E t \in TaskIds : RemoveTask(t)
    \/ Cleanup
    \/ ClockTick

SpecReaper == Init /\ [][NextReaper]_vars

\* the registry with the sweep taken step by step.  The event loop runs
\* one flow at a time and changes flow only where the running one awaits:
\* the other flows take their steps while the sweep is suspended.
NextSweep ==
    \/ SweepScan
    \/ SweepRemove
    \/ SweepSleep
    \/ ClockTick
    \/ /\ sweep.awaiting
       /\ \/ \E t \in TaskIds : CreateTask(t)
          \/ \E t \in TaskIds : CompleteTask(t, "p1")
          \/ \E t \in TaskIds : FailTask(t, "e1")
          \/ \E t \in TaskIds : RemoveTask(t)

SpecSweep == Init /\ [][NextSweep]_vars

\* the life of the cleanup loop: started by create_task, cancelled, ended
NextReaperLife ==
    \/ \E t \in TaskIds : CreateTask(t)
    \/ \E t \in TaskIds : CompleteTask(t, "p1")
    \/ \E t \in TaskIds : RemoveTask(t)
    \/ Cleanup
    \/ CleanupRaises
    \/ CancelCleanup
    \/ CleanupLoopEnds
    \/ ClockTick

SpecReaperLife == Init /\ [][NextReaperLife]_vars

\* the registry and the callback receiver, one callback in flight at a time
NextCallback ==
    \/ \E t \in TaskIds : CreateTask(t)
    \/ \E t \in TaskIds, p \in Payloads : CompleteTask(t, p)
    \/ \E t \in TaskIds, e \in Errors : FailTask(t, e)
    \/ \E t \in TaskIds : RemoveTask(t)
    \/ \E t \in TaskIds \cup {None}, st \in CallbackStates, rj \in ResultJsons,
             fm \in FailMsgs, fc \in FailCodes :
          CallbackReceive(t, st, rj, fm, fc)
    \/ \E dl \in Downloads, p \in Payloads : CallbackDownloaded(dl, p)

SpecCallback == Init /\ [][NextCallback]_vars

\* one image job: the caller, the provider's callbacks and the registry
NextCaller ==
    \/ \E url \in BackendUrls : CallerStart(url)
    \/ \E resp \in Responses, p \in Payloads, fm \in FailMsgs,
             fc \in FailCodes : CallerResponse(resp, p, fm, fc)
    \/ LoopTick
    \/ CallerWaitReturn
    \/ CallerWaitTimeout
    \/ \E r \in PollResponses, p \in Payloads, fm \in FailMsgs,
             fc \in FailCodes : CallerPoll(r, p, fm, fc)
    \/ \E st \in CallbackStates, rj \in ResultJsons, fm \in FailMsgs,
             fc \in FailCodes : ProviderCallback(st, rj, fm, fc)
    \/ \E dl \in Downloads, p \in Payloads : CallbackDownloaded(dl, p)

SpecCaller == Init /\ [][NextCaller]_vars

\* the same job when every HTTP request of the caller ends, timers fire
\* and a resumable flow is resumed
FairCaller ==
    /\ WF_vars(\E resp \in Responses, p \in Payloads, fm \in FailMsgs,
                   fc \in FailCodes : CallerResponse(resp, p, fm, fc))
    /\ WF_vars(LoopTick)
    /\ WF_vars(CallerWaitReturn)
    /\ WF_vars(CallerWaitTimeout)
    /\ WF_vars(\E r \in PollResponses, p \in Payloads, fm \in FailMsgs,
                   fc \in FailCodes : CallerPoll(r, p, fm, fc))

SpecCallerFair == Init /\ [][NextCaller]_vars /\ FairCaller

\* one polled job and a status endpoint with one outage: a status request
\* fails exactly while the endpoint is down
NextPoll ==
    \/ CallerStart(<<"http://", "localhost", ":8000">>)
    \/ CallerResponse("async", "p1", None, None)
    \/ \E n \in 1..MaxOutage : OutageBegins(n)
    \/ \E r \in PollResponses :
          /\ r = "error" <=> InOutage(caller.poll_count)
          /\ CallerPoll(r, "p1", "m1", "501")

SpecPoll == Init /\ [][NextPoll]_vars


\* the callback endpoint with every request body, and the registry
NextIngress ==
    \/ \E t \in TaskIds : CreateTask(t)
    \/ \E t \in TaskIds : RemoveTask(t)
    \/ \E pl \in KiePayloads, rj \in {"missing", "urls"} :
          CallbackPost("valid", pl, rj, None, None)
    \/ \E body \in Bodies \ {"valid"} :
          CallbackPost(body, NoPayload, "missing", None, None)
    \/ \E dl \in Downloads, p \in Payloads : CallbackDownloaded(dl, p)

SpecIngress == Init /\ [][NextIngress]_vars

\* the Suno callback endpoint and the workflows that wait for their audio
NextSuno ==
    \/ \E wf \in Workflows, t \in TaskIds : WorkflowSaved(wf, t)
    \/ \E body \in SunoBodies, code \in SunoCodes, has_data \in BOOLEAN,
             ct \in SunoCallbackTypes, t \in TaskIds, tr \in SunoTracks,
             sb \in Supabase :
          SunoCallback(body, code, has_data, ct, t, tr, sb)

SpecSuno == Init /\ [][NextSuno]_vars

\* the normalization alone, on every payload of NormInputs
NextNormalize ==
    \/ \E pl \in NormInputs : Normalize(pl)
    \/ NormalizeReturn

SpecNormalize == Init /\ [][NextNormalize]_vars

\* ------------------------------------------------------------ properties
Finished(w) == waiters[w].pc = "done" /\ waiters[w].out.kind # "timeout"

\* C1: once a wait() on a task has returned payload (the task was resolved
\* via complete(t, payload)), every wait() on that task that ends without
\* timing out returns that same payload.
C1_EveryWaitReturnsPayload ==
    \A w, v \in Waiters :
        (/\ Finished(w) /\ Finished(v)
         /\ waiters[w].obj = waiters[v].obj
         /\ waiters[w].out.kind = "returned")
        => waiters[v].out = waiters[w].out

\* C2: once a wait() on a task has raised err (the task was resolved via
\* fail(t, err)), every wait() on that task that ends without timing out
\* raises that same err.
C2_EveryWaitRaisesErr ==
    \A w, v \in Waiters :
        (/\ Finished(w) /\ Finished(v)
         /\ waiters[w].obj = waiters[v].obj
         /\ waiters[w].out.kind = "raised")
        => waiters[v].out = waiters[w].out

\* C3: once an object is resolved, no later complete or fail changes its
\* stored result or error.
C3_ResolvedOnce ==
    [][\A i \in 1..MaxObjs :
          (objs[i].completed /\ objs'[i].completed)
          => (objs'[i].result = objs[i].result /\ objs'[i].error = objs[i].error)]_vars

\* C4: create(t) while t is in the registry raises the duplicate error and
\* leaves the registry, every object and every waiter as they were; each
\* registry entry is the one object created for its id.
C4_DuplicateCreate ==
    /\ [](\A t \in DOMAIN tasks : objs[tasks[t]].task_id = t)
    /\ [][\A t \in TaskIds :
             (t \in DOMAIN tasks /\ CreateTask(t))
             => (/\ last' = "ValueError"
                 /\ tasks' = tasks /\ objs' = objs /\ waiters' = waiters)]_vars

C4_Witness ==
    /\ last = "ValueError"
    /\ \E t, u \in DOMAIN tasks :
          /\ t # u
          /\ objs[tasks[t]].completed
          /\ waiters["w1"].pc = "waiting" /\ waiters["w1"].obj = tasks[u]
          /\ ~objs[tasks[u]].event

\* C5: complete, fail and a callback for a task id that is not in the
\* registry raise nothing (they only warn), create no entry and change no
\* object; the callback is acknowledged with HTTP 200 and status success.
Warnings == {"warn_complete_unknown", "warn_fail_unknown", "warn_callback_unknown"}

C7_FiniteWaitEnds ==
    /\ \A w \in Waiters :
          (waiters[w].pc = "waiting" /\ waiters[w].left # NoTimeout)
              ~> (waiters[w].pc = "done")
    /\ [][\A w \in Waiters :
             (waiters[w].pc = "waiting" /\ waiters'[w].pc = "done"
                 /\ ~objs[waiters[w].obj].event)
             => (/\ waiters'[w].out.kind = "timeout"
                 /\ waiters'[w].out.val \notin Payloads \cup Errors)]_vars

C7_Witness ==
    \E w \in Waiters :
        /\ waiters[w].pc = "done" /\ waiters[w].out.kind = "timeout"
        /\ ~objs[waiters[w].obj].event

\* C8: a wait that times out leaves the registry, every object and every
\* other waiter as they were.
C8_TimeoutFrame ==
    [][\A w \in Waiters :
          (waiters[w].pc = "waiting" /\ waiters'[w].pc = "done"
              /\ waiters'[w].out.kind = "timeout")
          => (/\ tasks' = tasks /\ objs' = objs
              /\ \A v \in Waiters \ {w} : waiters'[v] = waiters[v])]_vars

C8_Witness ==
    \E w, v \in Waiters :
        /\ waiters[w].pc = "done" /\ waiters[w].out.kind = "timeout"
        /\ waiters[v].pc = "done" /\ ~waiters[v].late
        /\ waiters[v].obj = waiters[w].obj
        /\ waiters[v].out.kind \in {"returned", "raised"}
        /\ tasks = [t \in {"t1"} |-> waiters[w].obj]

\* C9: the event of an object is set exactly when the object is resolved,
\* and while the object lives its event is never cleared.
C9_SignalIffResolved ==
    /\ [](\A i \in 1..MaxObjs : objs[i].event = objs[i].completed)
    /\ [][\A i \in 1..MaxObjs :
             (objs[i].event /\ i \in Live(tasks', waiters'))
             => objs'[i].event]_vars

C9_Witness ==
    \E i \in 1..MaxObjs :
        /\ objs[i].event /\ objs[i].completed
        /\ objs[i].result # None /\ objs[i].error # None

\* C10: a cleanup pass removes only entries that are resolved and older
\* than the retention age; every other entry is still registered, with
\* the same object, after the pass.
C10_ReaperRemovesOnlyOldResolved ==
    [][Cleanup =>
          \A t \in DOMAIN tasks :
              (\/ ~objs[tasks[t]].completed
               \/ objs[tasks[t]].created_at >= now - max_age_hours)
              => (t \in DOMAIN tasks' /\ tasks'[t] = tasks[t]
                     /\ objs'[tasks[t]] = objs[tasks[t]])]_vars

C10_Witness ==
    /\ last = "cleaned_up"
    /\ \E t \in DOMAIN tasks :
          /\ ~objs[tasks[t]].completed
          /\ objs[tasks[t]].created_at < now - max_age_hours

\* C11: one pass of the cleanup removes every entry that is resolved (by a
\* result or by an error) and older than the retention age, and nothing
\* else: the registry after the pass is the registry before it minus
\* exactly those entries.
C11_ReaperRemovesEveryOldResolved ==
    [][Cleanup =>
          LET old == {t \in DOMAIN tasks :
                         /\ objs[tasks[t]].completed
                         /\ now - objs[tasks[t]].created_at > max_age_hours}
          IN /\ DOMAIN tasks' = DOMAIN tasks \ old
             /\ \A t \in DOMAIN tasks' : tasks'[t] = tasks[t]]_vars

C11_Witness ==
    /\ last = "cleaned_up"
    /\ \E t \in DOMAIN tasks :
          /\ objs[tasks[t]].completed /\ objs[tasks[t]].error # None
          /\ objs[tasks[t]].created_at >= now - max_age_hours
    /\ Cardinality(DOMAIN tasks) = 1

\* ------------------------------------------- properties of the dual path
InFlight == {"posted", "waiting", "polling"}
Ended == {"returned", "raised"}

\* C12: the registry entry of the job exists from the moment the request
\* that carries the callback URL is dispatched: a callback for the job that
\* arrives while the caller is at work finds the entry and is not dropped
\* as one for an unknown task.
C12_EntryBeforeDispatch ==
    [][(/\ caller.pc \in InFlight
        /\ \E st \in CallbackStates, rj \in ResultJsons,
              fm \in FailMsgs, fc \in FailCodes :
              ProviderCallback(st, rj, fm, fc))
       => (JobId \in DOMAIN tasks /\ last' # "warn_callback_unknown")]_vars

\* C13: the caller is never blocked for ever: once the job is requested,
\* the caller returns or raises, after a wait of at most callback_timeout
\* and at most max_polls status requests (every HTTP request it sends is
\* assumed to end).
C13_CallerEnds ==
    /\ (caller.pc \in InFlight) ~> (caller.pc \in Ended)
    /\ [](/\ caller.poll_count <= max_polls
          /\ waiters["w1"].left <= callback_timeout)

C13_Witness ==
    /\ caller.callBackUrl
    /\ waiters["w1"].out.kind = "timeout"
    /\ caller.pc = "raised" /\ caller.out.val = "PollTimeout"
    /\ caller.poll_count = max_polls

\* C14: once the caller's wait has timed out and the caller polls, what it
\* returns or raises is determined by the responses to its status requests
\* alone: only a polling iteration changes the caller, each iteration ends
\* as its response says whatever the registry holds, and a callback that
\* resolves the entry meanwhile changes nothing of the caller.
C14_PollingAlone ==
    [][caller.pc = "polling" =>
          /\ caller' # caller =>
                \E r \in PollResponses, p \in Payloads, fm \in FailMsgs,
                   fc \in FailCodes : CallerPoll(r, p, fm, fc)
          /\ \A r \in PollResponses, p \in Payloads, fm \in FailMsgs,
                fc \in FailCodes :
                CallerPoll(r, p, fm, fc) =>
                   /\ tasks' = tasks /\ objs' = objs
                   /\ caller'.poll_count = caller.poll_count + 1
                   /\ r = "success" =>
                         (caller'.pc = "returned" /\ caller'.out.val = p)
                   /\ r = "success_bad" =>
                         (caller'.pc = "raised"
                             /\ caller'.out.val = "PollBadResult")
                   /\ r = "fail" =>
                         (caller'.pc = "raised"
                             /\ caller'.out.val = GenerationFailed(fc, fm))
                   /\ r \in {"error", "pending"} =>
                         \/ caller'.pc = "polling"
                         \/ /\ caller'.pc = "raised"
                            /\ caller'.out.val \in {"PollGaveUp", "PollTimeout"}]_vars

C14_Witness ==
    /\ caller.callBackUrl
    /\ waiters["w1"].out.kind = "timeout"
    /\ caller.pc = "returned" /\ caller.out.val = "p2"
    /\ objs[get_task(JobId)].error = GenerationFailed("501", "m1")

\* C15: when the caller's wait has timed out and the caller has finished
\* polling (it returned or raised), the registry entry of the job is
\* resolved or is no longer in the registry.
C15_CallerSettlesEntry ==
    (/\ caller.pc \in Ended
     /\ waiters["w1"].pc = "done" /\ waiters["w1"].out.kind = "timeout")
    => (\/ JobId \notin DOMAIN tasks
        \/ objs[tasks[JobId]].completed)

\* C16: the createTask request carries the callback URL exactly when the
\* backend URL names none of localhost, 127.0.0.1 and 0.0.0.0; when it
\* names one of them no entry is created for the job, the caller never
\* waits, and a response announcing a job in progress takes the caller
\* straight to polling.
C16_CallbackOnlyIfReachable ==
    /\ [](caller.pc # "idle" =>
            LET url == caller.backend_url
                reachable ==
                    \A i \in DOMAIN url :
                        lower(url[i]) \notin {"localhost", "127.0.0.1", "0.0.0.0"}
            IN /\ caller.callBackUrl <=> reachable
               /\ ~reachable =>
                     /\ JobId \notin DOMAIN tasks
                     /\ waiters["w1"] = Idle
                     /\ caller.pc # "waiting")
    /\ [][(/\ caller.pc = "posted" /\ ~caller.callBackUrl
            /\ \E p \in Payloads, fm \in FailMsgs, fc \in FailCodes :
                  CallerResponse("async", p, fm, fc))
           => (caller'.pc = "polling" /\ caller'.poll_count = 0
                  /\ tasks' = tasks /\ waiters' = waiters)]_vars

C16_Witness ==
    /\ caller.backend_url = <<"https://", "LOCALHOST">>
    /\ ~caller.callBackUrl
    /\ caller.pc = "returned" /\ caller.poll_count > 0
    /\ tasks = <<>>

\* C18: status requests belong to the polling fallback alone: when the
\* callback URL was sent, no status request is issued before the caller's
\* wait has timed out, and none at all when the wait ended because the
\* task was resolved.
C18_PollOnlyAfterTimeout ==
    /\ []((caller.callBackUrl
             /\ (caller.poll_count > 0 \/ caller.pc = "polling"))
            => (waiters["w1"].pc = "done"
                   /\ waiters["w1"].out.kind = "timeout"))
    /\ []((waiters["w1"].pc = "done"
             /\ waiters["w1"].out.kind \in {"returned", "raised"})
            => (caller.pc \in Ended /\ caller.poll_count = 0))
    /\ [][caller'.poll_count # caller.poll_count
             => (caller.pc = "polling"
                    /\ caller'.poll_count = caller.poll_count + 1)]_vars

C18_Witness ==
    /\ caller.callBackUrl
    /\ caller.pc = "returned" /\ caller.poll_count = 0
    /\ waiters["w1"].out = [kind |-> "returned", val |-> "p1"]
    /\ waiters["w1"].left = NoTimeout

\* the errors that carry a failure code and message of the provider
ProviderFailures ==
    {GenerationFailed(fc, fm) : fc \in FailCodes, fm \in FailMsgs}

\* C17: a failure the provider reports reaches the caller as the error
\* that carries the provider's failure code and message.  A fail callback
\* received while the caller waits stores that error, the error stays the
\* stored one until the wait ends, and the wait then raises it without any
\* status request; a fail state seen by a polling iteration makes the
\* caller raise that error; the caller returns no image in either case.
C17_ProviderFailureReachesCaller ==
    /\ [][\A fm \in FailMsgs, fc \in FailCodes :
             (/\ caller.pc = "waiting"
              /\ \E rj \in ResultJsons : ProviderCallback("fail", rj, fm, fc))
             => (/\ objs'[tasks[JobId]].error = GenerationFailed(fc, fm)
                 /\ objs'[tasks[JobId]].event)]_vars
    /\ [][(/\ caller.pc = "waiting" /\ caller'.pc = "waiting"
            /\ objs[tasks[JobId]].error \in ProviderFailures)
           => objs'[tasks[JobId]].error \in ProviderFailures]_vars
    /\ [][(/\ caller.pc = "waiting" /\ caller'.pc # "waiting"
            /\ objs[tasks[JobId]].error \in ProviderFailures)
           => (/\ caller'.pc = "raised"
               /\ caller'.out.val = objs[tasks[JobId]].error
               /\ caller'.poll_count = 0)]_vars
    /\ [][\A p \in Payloads, fm \in FailMsgs, fc \in FailCodes :
             CallerPoll("fail", p, fm, fc)
             => (/\ caller'.pc = "raised"
                 /\ caller'.out.val = GenerationFailed(fc, fm))]_vars

\* -------------------------------------- properties of the callback endpoint
\* C19: every POST to the callback endpoint is answered with HTTP 200,
\* whatever its body and whatever the processing does: no request is
\* answered with another status.
C19_AlwaysAcknowledged ==
    /\ cb.http \in {0, 200}
    /\ last \notin {"HTTPException", "RequestValidationError"}

\* C20: a callback whose task id is absent or empty in every position
\* (taskId, task_id, data.taskId, data.task_id) is answered with HTTP 200
\* and status error, raises nothing, and makes no call into the registry:
\* no entry is created, resolved or removed.
C20_MissingTaskIdAcknowledged ==
    [][\A pl \in {x \in KiePayloads :
                      /\ x.taskId \in {None, ""} /\ x.task_id \in {None, ""}
                      /\ x.data => (x.d_taskId \in {None, ""}
                                       /\ x.d_task_id \in {None, ""})},
          rj \in {"missing", "urls"} :
          CallbackPost("valid", pl, rj, None, None)
          => (/\ cb'.pc = "idle" /\ cb'.http = 200 /\ cb'.status = "error"
              /\ last' = "warn_missing_task_id"
              /\ tasks' = tasks /\ objs' = objs)]_vars

C20_Witness ==
    /\ last = "warn_missing_task_id"
    /\ cb = Ack(None, "error")
    /\ DOMAIN tasks = TaskIds
    /\ \E t \in TaskIds : objs[tasks[t]].completed
    /\ \E t \in TaskIds : ~objs[tasks[t]].completed

\* ------------------------------------------- properties of the registry
\* C30: when both complete(t, p) and fail(t, e) have been applied to a
\* task, in either order, a wait on it that ends without timing out raises
\* the stored error and does not return the stored payload.
C30_ErrorTakesPrecedence ==
    /\ [][\A w \in Waiters :
             LET o == objs[waiters[w].obj]
             IN (/\ waiters[w].pc = "waiting" /\ waiters'[w].pc = "done"
                 /\ waiters'[w].out.kind # "timeout"
                 /\ o.result # None /\ o.error # None)
                => waiters'[w].out = [kind |-> "raised", val |-> o.error]]_vars
    /\ [][\A e \in Errors :
             (/\ "t1" \in DOMAIN tasks
              /\ objs[tasks["t1"]].result # None
              /\ FailTask("t1", e))
             => (/\ objs'[tasks["t1"]].error = e
                 /\ objs'[tasks["t1"]].result = objs[tasks["t1"]].result)]_vars
    /\ [][(/\ "t1" \in DOMAIN tasks
            /\ objs[tasks["t1"]].error # None
            /\ CompleteTask("t1", "p1"))
           => (/\ objs'[tasks["t1"]].result = "p1"
               /\ objs'[tasks["t1"]].error = objs[tasks["t1"]].error)]_vars

C30_Witness ==
    \E w, v \in Waiters :
        /\ w # v
        /\ waiters[w].pc = "done" /\ waiters[v].pc = "done"
        /\ waiters[w].obj = waiters[v].obj
        /\ waiters[w].out = [kind |-> "returned", val |-> "p1"]
        /\ waiters[v].out = [kind |-> "raised", val |-> "e2"]
        /\ waiters[v].late
        /\ objs[waiters[v].obj].result = "p1"

\* C25: remove(t) deletes the entry of t whether it is resolved or not and
\* whether or not a flow is suspended on it, raises nothing, changes no
\* other entry, no object that is still referred to and no waiter; when t
\* has no entry (never created, or already removed) the registry is
\* unchanged.
C25_RemoveUnconditional ==
    [][\A t \in TaskIds :
          RemoveTask(t) =>
             /\ DOMAIN tasks' = DOMAIN tasks \ {t}
             /\ \A x \in DOMAIN tasks' :
                   tasks'[x] = tasks[x] /\ objs'[tasks[x]] = objs[tasks[x]]
             /\ last' = None
             /\ waiters' = waiters
             /\ \A w \in Waiters :
                   waiters[w].obj # 0 =>
                      objs'[waiters[w].obj] = objs[waiters[w].obj]
             /\ t \notin DOMAIN tasks => (tasks' = tasks /\ objs' = objs)]_vars

C25_Witness ==
    /\ waiters["w1"].pc = "waiting"
    /\ ~objs[waiters["w1"].obj].completed
    /\ objs[waiters["w1"].obj].task_id = "t1"
    /\ DOMAIN tasks = {"t2"}
    /\ last = None

\* C26: no cleanup loop is alive before the first create; at most one is
\* alive at any time, the one the manager holds; a create while that loop
\* is running starts no second one; a successful create after the loop has
\* ended starts a new one; a sweep that raises does not end the loop.
C26_OneReaper ==
    /\ [](/\ loops \in {0, 1}
          /\ loops = 1 <=> cleanup_task \in {"running", "cancelling"}
          /\ cleanup_task = "none" => tasks = <<>>)
    /\ [][(cleanup_task # "running" /\ cleanup_task' = "running")
             => (\E t \in TaskIds : t \notin DOMAIN tasks /\ CreateTask(t))]_vars
    /\ [][\A t \in TaskIds :
             (CreateTask(t) =>
                /\ cleanup_task = "running" =>
                      (loops' = loops /\ cleanup_task' = "running")
                /\ (cleanup_task \in {"none", "done"} /\ t \notin DOMAIN tasks)
                      => (loops' = 1 /\ cleanup_task' = "running"))]_vars
    /\ [][CleanupRaises =>
             (cleanup_task' = "running" /\ loops' = loops /\ tasks' = tasks)]_vars

C26_Witness ==
    /\ cleanup_task = "running" /\ loops = 1
    /\ last = "cleanup_error"
    /\ DOMAIN tasks = TaskIds
    /\ \A t \in TaskIds : objs[tasks[t]].created_at > 0

\* ---------------------------------------------- properties of the polling
\* C27: nothing is slept before the first status request; before each
\* later one the loop sleeps 3 s while the time slept so far is below 30 s,
\* 8 s from 30 s and below 120 s, 20 s from 120 s on; the intervals never
\* decrease over one polling run.
C27_PollIntervals ==
    [][(caller.pc = "polling" /\ caller'.poll_count = caller.poll_count + 1) =>
          LET slept == caller'.elapsed_seconds - caller.elapsed_seconds
          IN /\ caller.poll_count = 0 => slept = 0
             /\ caller.poll_count > 0 =>
                   /\ caller.elapsed_seconds < 30 => slept = 3
                   /\ (caller.elapsed_seconds >= 30
                          /\ caller.elapsed_seconds < 120) => slept = 8
                   /\ caller.elapsed_seconds >= 120 => slept = 20
                   /\ slept = caller'.current_interval
             /\ caller'.current_interval >= caller.current_interval]_vars

C27_Witness ==
    /\ caller.pc = "polling"
    /\ caller.poll_count > 23
    /\ caller.elapsed_seconds = 146
    /\ caller.current_interval = 20

\* the status requests of the job that have failed so far
FailedAttempts ==
    Cardinality({i \in 0..(caller.poll_count - 1) : InOutage(i)})

\* C28: polling gives up on a failed status request only after 10 failed
\* attempts.
C28_GivesUpAfterTenFailures ==
    (caller.pc = "raised" /\ caller.out.val = "PollGaveUp")
        => FailedAttempts >= give_up_after

\* C29: when polling raises its timeout the time it has slept is
\* max_polls * poll_interval seconds.
C29_TimeoutAfterReportedTime ==
    (caller.pc = "raised" /\ caller.out.val = "PollTimeout")
        => caller.elapsed_seconds = max_polls * poll_interval

\* -------------------------------------- properties of the normalization
Empty(v) == v \in {None, ""}

\* the first non-empty value of a sequence, None if there is none
FirstNonEmpty(seq) ==
    IF \A i \in DOMAIN seq : Empty(seq[i]) THEN None
    ELSE seq[CHOOSE i \in DOMAIN seq :
                 ~Empty(seq[i]) /\ \A j \in 1..(i - 1) : Empty(seq[j])]

\* out is the expected value, or nothing where nothing is expected
Same(out, expected) == IF Empty(expected) THEN Empty(out) ELSE out = expected

Places(pl, f) == <<pl[f[1]], pl[f[2]], pl[f[3]], pl[f[4]]>>

\* every field of pl is empty except at place k
OnlyAt(pl, k) ==
    \A f \in FieldNames : \A i \in (1..4) \ {k} : Empty(pl[f[i]])

\* C23: each logical field is the first non-empty value in the order
\* camelCase, snake_case, nested camelCase, nested snake_case (the state:
\* top level, nested); hence a payload that carries every field in one
\* place yields the values it carries, whichever place it is, and a nested
\* value is used only for a field that is empty at top level.
C23_NormalizationPrecedence ==
    norm.pc = "normalized" =>
        LET pl == norm.payload
        IN /\ Same(norm.task_id, FirstNonEmpty(Places(pl, TaskIdNames)))
           /\ Same(norm.result_json_str,
                   FirstNonEmpty(Places(pl, ResultJsonNames)))
           /\ Same(norm.fail_msg, FirstNonEmpty(Places(pl, FailMsgNames)))
           /\ Same(norm.fail_code, FirstNonEmpty(Places(pl, FailCodeNames)))
           /\ Same(norm.state, FirstNonEmpty(<<pl.state, pl.d_state>>))
           /\ \A k \in 1..4 :
                 OnlyAt(pl, k) =>
                    /\ Same(norm.task_id, pl[TaskIdNames[k]])
                    /\ Same(norm.result_json_str, pl[ResultJsonNames[k]])
                    /\ Same(norm.fail_msg, pl[FailMsgNames[k]])
                    /\ Same(norm.fail_code, pl[FailCodeNames[k]])
           /\ ~Empty(pl.taskId) => norm.task_id = pl.taskId
           /\ (Empty(pl.taskId) /\ ~Empty(pl.task_id))
                 => norm.task_id = pl.task_id
           /\ ~Empty(pl.state) => norm.state = pl.state

C23_Witness ==
    /\ norm.pc = "normalized"
    /\ norm.payload.failCode = "" /\ norm.payload.fail_code = None
    /\ norm.payload.d_failCode = "v1" /\ norm.payload.d_fail_code = "v2"
    /\ norm.fail_code = "v1"

\* ------------------------------- properties of intermediate callbacks
\* C22 (provider callbacks): a callback for the waited task whose state is
\* neither success nor fail is acknowledged and changes neither the
\* registry nor any waiter nor the caller.
C22_KieIntermediateIgnored ==
    [][\A st \in {"waiting", None} :
          ProviderCallback(st, "missing", None, None) =>
             /\ cb' = Ack(JobId, "success")
             /\ tasks' = tasks /\ objs' = objs
             /\ waiters' = waiters /\ caller' = caller]_vars

\* C22: a Suno callback (code 200, with data) whose callbackType is not
\* 'complete' is acknowledged as intermediate and updates nothing.
C22_SunoIntermediateAcknowledged ==
    [][\A ct \in {"text", "first"}, tr \in SunoTracks :
          SunoCallback("valid", 200, TRUE, ct, "t1", tr, "ok") =>
             /\ suno'.http = 200
             /\ suno'.message = "Intermediate callback received"
             /\ video_workflows' = video_workflows]_vars

\* the part of it that holds: such a callback updates no workflow
C22_SunoIntermediateUpdatesNothing ==
    [][\A code \in SunoCodes, ct \in {"text", "first"}, tr \in SunoTracks :
          SunoCallback("valid", code, TRUE, ct, "t1", tr, "ok") =>
             (suno'.http = 200 /\ video_workflows' = video_workflows)]_vars

\* --------------------------- properties of failures while processing
\* the errors handle_kie_callback records for a success callback it cannot
\* process
ProcessingFailures ==
    {"NoResultJson", "ParseError", "NoUrls", "DownloadFailed",
     "ProcessingError"}

\* what a success callback with result JSON rj is recorded as
ResultJsonFailure(rj) ==
    CASE rj = "missing" -> "NoResultJson"
      [] rj = "invalid" -> "ParseError"
      [] rj = "nourls" -> "NoUrls"

\* C21: a success callback for the tracked, unresolved task the caller
\* waits on that cannot be processed (result JSON missing or unparseable,
\* no result URL, download error or non-200) is acknowledged with status
\* success and recorded as the task's error; the error stays the stored
\* one until the wait ends, and the wait then raises it and does not time
\* out.
C21_ProcessingFailureReachesWaiter ==
    /\ [][\A rj \in {"missing", "invalid", "nourls"} :
             (/\ caller.pc = "waiting"
              /\ ~objs[tasks[JobId]].completed
              /\ ProviderCallback("success", rj, None, None))
             => (/\ cb' = Ack(JobId, "success")
                 /\ objs'[tasks[JobId]].completed
                 /\ objs'[tasks[JobId]].event
                 /\ objs'[tasks[JobId]].error = ResultJsonFailure(rj))]_vars
    /\ [][\A dl \in {"non200", "exception"} :
             (/\ caller.pc = "waiting"
              /\ ~objs[tasks[JobId]].completed
              /\ CallbackDownloaded(dl, "p1"))
             => (/\ cb' = Ack(JobId, "success")
                 /\ objs'[tasks[JobId]].completed
                 /\ objs'[tasks[JobId]].event
                 /\ objs'[tasks[JobId]].error \in ProcessingFailures)]_vars
    /\ [][(/\ caller.pc = "waiting" /\ caller'.pc # "waiting"
            /\ objs[tasks[JobId]].error \in ProcessingFailures)
           => (/\ caller'.pc = "raised"
               /\ caller'.out.val = objs[tasks[JobId]].error
               /\ caller'.poll_count = 0)]_vars
    /\ [][(/\ caller.pc = "waiting" /\ caller'.pc = "waiting"
            /\ objs[tasks[JobId]].error \in ProcessingFailures)
           => objs'[tasks[JobId]].error = objs[tasks[JobId]].error]_vars

\* the part of it that does not depend on the stored error staying
C21_ProcessingFailureRecorded ==
    /\ [][\A rj \in {"missing", "invalid", "nourls"} :
             (/\ caller.pc = "waiting"
              /\ ~objs[tasks[JobId]].completed
              /\ ProviderCallback("success", rj, None, None))
             => (/\ cb' = Ack(JobId, "success")
                 /\ objs'[tasks[JobId]].error = ResultJsonFailure(rj))]_vars
    /\ [][(/\ caller.pc = "waiting" /\ caller'.pc # "waiting"
            /\ objs[tasks[JobId]].error \in ProcessingFailures)
           => (/\ caller'.pc = "raised"
               /\ caller'.out.val = objs[tasks[JobId]].error)]_vars

\* ------------------------------------ properties of mutual exclusion
\* C24: between the scan of a sweep and its last removal no other flow
\* runs: the only change to the registry is the removal of scanned ids, no
\* entry is created, resolved or removed by another operation, every id
\* still to be removed is in the registry as it was scanned (resolved and
\* older than the cutoff), and when the sweep ends every scanned id is
\* gone.  create, complete, fail and remove are single steps.
C24_MutualExclusion ==
    /\ [][sweep.pc = "remove" =>
             /\ DOMAIN tasks' \subseteq DOMAIN tasks
             /\ DOMAIN tasks \ DOMAIN tasks' \subseteq sweep.left
             /\ \A t \in DOMAIN tasks' :
                   tasks'[t] = tasks[t] /\ objs'[tasks[t]] = objs[tasks[t]]
             /\ waiters' = waiters]_vars
    /\ [](sweep.pc = "remove" =>
             \A t \in sweep.left :
                /\ t \in DOMAIN tasks
                /\ objs[tasks[t]].completed
                /\ objs[tasks[t]].created_at < now - max_age_hours)
    /\ [][SweepSleep => sweep.to_remove \cap DOMAIN tasks = {}]_vars

C24_Witness ==
    /\ sweep.pc = "remove" /\ ~sweep.awaiting
    /\ Cardinality(sweep.to_remove) = 2
    /\ Cardinality(sweep.left) = 1
    /\ DOMAIN tasks = sweep.left
====
